---- MODULE Spec2Model ----
(***************************************************************************)
(* Office room allocation: the occupant store (OccupantManager: three      *)
(* partitions Current / Upcoming / Past), the room capacity store          *)
(* (RoomManager: room key -> capacity, with the cascading room operations) *)
(* and the derived occupancy table, modelled from src/models.py.           *)
(*                                                                         *)
(* A DataFrame is a sequence of rows; a row is a record with the six       *)
(* columns Name, Status, Email (the column "Email address"), Position,     *)
(* Office, Building.  The capacity dict is a function whose domain is the  *)
(* set of room keys it holds.                                              *)
(***************************************************************************)
EXTENDS Integers, Sequences, FiniteSets, TLC

VARIABLES
    current_df,       \* OccupantManager.current_df
    upcoming_df,      \* OccupantManager.upcoming_df
    past_df,          \* OccupantManager.past_df
    room_capacities,  \* RoomManager.room_capacities
    room_occupancy,   \* RoomManager.room_occupancy.occupancy_data
    last              \* the call that produced this state: name, arguments, outcome

vars == <<current_df, upcoming_df, past_df, room_capacities, room_occupancy, last>>

----------------------------------------------------------------------------
(* The rooms and names of the rosters below *)

\* Rooms as (building, office).  RoomC and RoomD differ as pairs and share
\* one room key.
RoomA == <<"N", "3.17">>
RoomB == <<"N", "3.02">>
RoomC == <<"W:2", "1.1">>
RoomD == <<"W", "2:1.1">>
RoomE == <<"N", "2.01">>
RoomF == <<"N", "10.01">>
RoomG == <<"N", "G7">>
RoomH == <<"W", "1.1">>
KnownRooms == {RoomA, RoomB, RoomC, RoomD, RoomE, RoomF, RoomG, RoomH}
KnownNames == {"Al", "Bo", "old storage", "STORAGE", "PLACEHOLDER"}

----------------------------------------------------------------------------
(* Strings *)

LowerLetters == "abcdefghijklmnopqrstuvwxyz"
UpperLetters == "ABCDEFGHIJKLMNOPQRSTUVWXYZ"

\* One character, upper-cased (what case=False makes of a letter).
UpperChar(c) ==
    IF \E i \in 1..Len(LowerLetters) : SubSeq(LowerLetters, i, i) = c
    THEN LET i == CHOOSE j \in 1..Len(LowerLetters) : SubSeq(LowerLetters, j, j) = c
         IN  SubSeq(UpperLetters, i, i)
    ELSE c

RECURSIVE Upper(_)
Upper(s) ==
    IF Len(s) = 0 THEN ""
    ELSE UpperChar(SubSeq(s, 1, 1)) \o Upper(SubSeq(s, 2, Len(s)))

\* The characters of the model's strings in code point order, and each one's
\* place in it: Python compares strings code point by code point.
CodePoints ==
    " .0123456789:<>ABCDEFGHIJKLMNOPQRSTUVWXYZabcdefghijklmnopqrstuvwxyz"
CodeOf ==
    [c \in {SubSeq(CodePoints, i, i) : i \in 1..Len(CodePoints)} |->
        CHOOSE i \in 1..Len(CodePoints) : SubSeq(CodePoints, i, i) = c]

RECURSIVE StrLess(_, _)
StrLess(a, b) ==
    IF Len(b) = 0 THEN FALSE
    ELSE IF Len(a) = 0 THEN TRUE
    ELSE LET ca == CodeOf[SubSeq(a, 1, 1)]
             cb == CodeOf[SubSeq(b, 1, 1)]
         IN  IF ca # cb THEN ca < cb
             ELSE StrLess(SubSeq(a, 2, Len(a)), SubSeq(b, 2, Len(b)))

\* pat occurs in s as a substring.
Contains(s, pat) ==
    \E i \in 1..(Len(s) - Len(pat) + 1) : SubSeq(s, i, i + Len(pat) - 1) = pat

\* office.split('.')[0] when the office holds a '.', else 'Unknown'.
FloorOf(office) ==
    IF Contains(office, ".")
    THEN LET dot == CHOOSE i \in 1..Len(office) :
                        /\ SubSeq(office, i, i) = "."
                        /\ \A j \in 1..(i - 1) : SubSeq(office, j, j) # "."
         IN  SubSeq(office, 1, dot - 1)
    ELSE "Unknown"

\* The answers for the known rooms' strings, computed once.
KnownOffices == {rm[2] : rm \in KnownRooms}
KnownFloor == [o \in KnownOffices |-> FloorOf(o)]
KnownStrings ==
    {rm[1] : rm \in KnownRooms} \cup KnownOffices
        \cup {KnownFloor[o] : o \in KnownOffices}
KnownLess == {p \in KnownStrings \X KnownStrings : StrLess(p[1], p[2])}

\* a < b on strings.
StrBefore(a, b) ==
    IF a \in KnownStrings /\ b \in KnownStrings THEN <<a, b>> \in KnownLess
    ELSE StrLess(a, b)

\* A missing Name (None / NaN in the DataFrame).
NA == "<NA>"

\* Series == scalar and Series != scalar: a missing value on either side
\* compares unequal.
NameEq(a, b) == a # NA /\ b # NA /\ a = b
NameNe(a, b) == a = NA \/ b = NA \/ a # b

\* The answers for the known names, computed once.
KnownStorageNames == {n \in KnownNames : Contains(Upper(n), "STORAGE")}
KnownPlaceholderNames == {n \in KnownNames : Contains(Upper(n), "PLACEHOLDER")}

\* df['Name'].str.contains(word, case=False, na=False), one row's name.
NameContains(name, word) ==
    /\ name # NA
    /\ IF name \in KnownNames /\ word = "STORAGE"
       THEN name \in KnownStorageNames
       ELSE IF name \in KnownNames /\ word = "PLACEHOLDER"
       THEN name \in KnownPlaceholderNames
       ELSE Contains(Upper(name), word)

\* Variant: the word is looked for as written, in capitals only.
NameContainsStorageCased(name) == name # NA /\ Contains(name, "STORAGE")

NameContainsStorage(name) == NameContains(name, "STORAGE")

\* A person, not a sentinel row: the pages' not_storage_mask & not_placeholder_mask.
IsRealName(name) ==
    ~NameContains(name, "STORAGE") /\ ~NameContains(name, "PLACEHOLDER")

\* f"{building}:{office}"
RoomKey(building, office) == building \o ":" \o office

----------------------------------------------------------------------------
(* DataFrames and the capacity dict *)

Row(name, status, email, position, office, building) ==
    [Name |-> name, Status |-> status, Email |-> email, Position |-> position,
     Office |-> office, Building |-> building]

\* df[mask] for a row predicate.
Filter(df, Keep(_)) == SelectSeq(df, Keep)

\* (df['Building'] == building) & (df['Office'] == office), one row.
InRoom(r, building, office) == r.Building = building /\ r.Office = office

DictGet(d, k, default) == IF k \in DOMAIN d THEN d[k] ELSE default
DictSet(d, k, v) == [x \in (DOMAIN d) \cup {k} |-> IF x = k THEN v ELSE d[x]]
DictDel(d, k) == [x \in (DOMAIN d) \ {k} |-> d[x]]
EmptyDict == [x \in {} |-> 0]

----------------------------------------------------------------------------
(* RoomOccupancy *)

DefaultCapacity == 2

\* extract_floor(office), for a string office.
extract_floor(office) ==
    IF office \in KnownOffices THEN KnownFloor[office] ELSE FloorOf(office)

\* Variant: the remaining places are never fewer than none.
RemainingFloored(occupants, max_capacity) ==
    IF max_capacity < occupants THEN 0 ELSE max_capacity - occupants

\* occupancy['Remaining'] = occupancy['Max_Capacity'] - occupancy['Occupants']
Remaining(occupants, max_capacity) == max_capacity - occupants

\* (Occupants / Max_Capacity * 100).round(1), in tenths of a percent; the
\* division by a zero capacity gives inf (no row of the grouped table has
\* zero occupants).  Ties go to the even tenth.
Percentage(occupants, max_capacity) ==
    IF max_capacity = 0 THEN [finite |-> FALSE, tenths |-> 0]
    ELSE LET n == occupants * 1000
             q == n \div max_capacity
             r == n % max_capacity
         IN  [finite |-> TRUE,
              tenths |-> IF 2 * r < max_capacity THEN q
                         ELSE IF 2 * r > max_capacity THEN q + 1
                         ELSE IF q % 2 = 0 THEN q ELSE q + 1]

\* Variant: the overfilled check comes before the vacant check.
OverfilledBeforeVacant(row) ==
    IF row.IsStorage THEN "storage"
    ELSE IF row.Remaining < 0 THEN "overfilled"
    ELSE IF row.Occupants = 0 THEN "vacant"
    ELSE IF row.Percentage.finite /\ row.Percentage.tenths <= 250 THEN "low"
    ELSE IF row.Percentage.finite /\ row.Percentage.tenths <= 500 THEN "medium"
    ELSE IF row.Percentage.finite /\ row.Percentage.tenths <= 750 THEN "high"
    ELSE "full"

_get_room_status(row) ==
    IF row.IsStorage THEN "storage"
    ELSE IF row.Occupants = 0 THEN "vacant"
    ELSE IF row.Remaining < 0 THEN "overfilled"
    ELSE IF row.Percentage.finite /\ row.Percentage.tenths <= 250 THEN "low"
    ELSE IF row.Percentage.finite /\ row.Percentage.tenths <= 500 THEN "medium"
    ELSE IF row.Percentage.finite /\ row.Percentage.tenths <= 750 THEN "high"
    ELSE "full"

\* One row of the grouped table: the group (building, office) of df.
OccupancyRow(df, caps, building, office) ==
    LET occupants    == Len(Filter(df, LAMBDA r : InRoom(r, building, office)))
        max_capacity == DictGet(caps, RoomKey(building, office), DefaultCapacity)
        base == [Building     |-> building,
                 Office       |-> office,
                 Occupants    |-> occupants,
                 Floor        |-> extract_floor(office),
                 IsStorage    |-> \E i \in 1..Len(df) :
                                     /\ InRoom(df[i], building, office)
                                     /\ NameContainsStorage(df[i].Name),
                 Max_Capacity |-> max_capacity,
                 Remaining    |-> Remaining(occupants, max_capacity),
                 Percentage   |-> Percentage(occupants, max_capacity)]
    IN  [x \in (DOMAIN base) \cup {"Status"} |->
            IF x = "Status" THEN _get_room_status(base) ELSE base[x]]

\* sort_values(['Building', 'Floor', 'Office']): the order of two rows.
RowBefore(r1, r2) ==
    \/ StrBefore(r1.Building, r2.Building)
    \/ /\ r1.Building = r2.Building
       /\ \/ StrBefore(r1.Floor, r2.Floor)
          \/ r1.Floor = r2.Floor /\ StrBefore(r1.Office, r2.Office)

RECURSIVE SortRows(_)
SortRows(rows) ==
    IF rows = {} THEN <<>>
    ELSE LET first == CHOOSE r \in rows : \A q \in rows \ {r} : RowBefore(r, q)
         IN  <<first>> \o SortRows(rows \ {first})

\* Variant: only the rooms that have an entry in the capacity table get a row.
CalculateForConfigured(df, caps) ==
    LET groups == {<<df[i].Building, df[i].Office>> : i \in 1..Len(df)}
    IN  SortRows({OccupancyRow(df, caps, g[1], g[2]) :
                    g \in {h \in groups : RoomKey(h[1], h[2]) \in DOMAIN caps}})

\* The table has one row per (Building, Office) group of the current roster;
\* the roster's own order (get_current_occupants sorts it by Name) does not
\* reach the grouped table.
calculate_occupancy(df, caps) ==
    IF df = <<>> THEN <<>>
    ELSE LET groups == {<<df[i].Building, df[i].Office>> : i \in 1..Len(df)}
         IN  SortRows({OccupancyRow(df, caps, g[1], g[2]) : g \in groups})

\* agg 'sum' of one column over the rows of a group.
RECURSIVE SumOf(_, _)
SumOf(rows, column) ==
    IF rows = <<>> THEN 0
    ELSE Head(rows)[column] + SumOf(Tail(rows), column)

\* One row of a summary: Room Count, the three sums and the Occupancy Rate.
SummaryRow(key, rows) ==
    [Key           |-> key,
     RoomCount     |-> Len(rows),
     Occupants     |-> SumOf(rows, "Occupants"),
     Max_Capacity  |-> SumOf(rows, "Max_Capacity"),
     Remaining     |-> SumOf(rows, "Remaining"),
     OccupancyRate |-> Percentage(SumOf(rows, "Occupants"), SumOf(rows, "Max_Capacity"))]

\* The rows of the summary by building; no rows for an empty table.
get_building_summary(table) ==
    {SummaryRow(<<b>>, SelectSeq(table, LAMBDA r : r.Building = b)) :
        b \in {table[i].Building : i \in 1..Len(table)}}

\* The rows of the summary by building and floor, of one building or of all.
get_floor_summary(table, building) ==
    LET data == IF building # "" /\ building # "All"
                THEN SelectSeq(table, LAMBDA r : r.Building = building)
                ELSE table
    IN  {SummaryRow(g, SelectSeq(data, LAMBDA r : r.Building = g[1] /\ r.Floor = g[2])) :
            g \in {<<data[i].Building, data[i].Floor>> : i \in 1..Len(data)}}

\* occupancy.apply(self._get_room_status, axis=1), for one row.
apply_get_room_status(row) ==
    /\ last' = [op |-> "_get_room_status", args |-> <<row>>,
                result |-> _get_room_status(row), found |-> <<>>, seq |-> 0]
    /\ UNCHANGED <<current_df, upcoming_df, past_df, room_capacities, room_occupancy>>

----------------------------------------------------------------------------
(* OccupantManager *)

\* The call record kept in `last`: the call, its arguments, its outcome
\* ("True", "False" or the exception raised) and what the call found at its
\* room when it started.  seq tells a call from the same call made just
\* before it, so that no call is a stuttering step.
CallAt(op, args, result, found) ==
    [op |-> op, args |-> args, result |-> result, found |-> found,
     seq |-> IF last.op = op /\ last.args = args THEN 1 - last.seq ELSE 0]

Call(op, args, result) == CallAt(op, args, result, <<>>)

CountRows(df, Test(_)) == Len(SelectSeq(df, Test))

\* What a room call finds at (building, office) when it starts.
Found(building, office) ==
    [was_storage  |-> \E i \in 1..Len(current_df) :
                         /\ InRoom(current_df[i], building, office)
                         /\ NameContainsStorage(current_df[i].Name),
     had_capacity |-> RoomKey(building, office) \in DOMAIN room_capacities,
     real         |-> CountRows(current_df,
                        LAMBDA r : InRoom(r, building, office) /\ IsRealName(r.Name)),
     rows         |-> <<CountRows(current_df, LAMBDA r : InRoom(r, building, office)),
                        CountRows(upcoming_df, LAMBDA r : InRoom(r, building, office)),
                        CountRows(past_df, LAMBDA r : InRoom(r, building, office))>>]

\* Rows of a batch whose Status is the given one, in batch order.
RowsWithStatus(df, status) == Filter(df, LAMBDA r : r.Status = status)

\* for occupant in moved: updated_df = updated_df[updated_df['Name'] != occupant['Name']]
RemoveByName(updated_df, moved) ==
    Filter(updated_df,
           LAMBDA r : \A i \in 1..Len(moved) : NameNe(r.Name, moved[i].Name))

add_occupant(occupant_data, status) ==
    /\ current_df' = IF status = "Current"
                     THEN Append(current_df, occupant_data) ELSE current_df
    /\ upcoming_df' = IF status = "Upcoming"
                      THEN Append(upcoming_df, occupant_data) ELSE upcoming_df
    /\ past_df' = IF status = "Past"
                  THEN Append(past_df, occupant_data) ELSE past_df
    /\ last' = Call("add_occupant", <<occupant_data, status>>, "True")
    /\ UNCHANGED <<room_capacities, room_occupancy>>

update_current_occupants(updated_df) ==
    LET to_upcoming == RowsWithStatus(updated_df, "Upcoming")
        to_past     == RowsWithStatus(updated_df, "Past")
    IN  /\ current_df' = RemoveByName(updated_df, to_upcoming \o to_past)
        /\ upcoming_df' = upcoming_df \o to_upcoming
        /\ past_df' = past_df \o to_past
        /\ last' = Call("update_current_occupants", <<updated_df>>, "True")
        /\ UNCHANGED <<room_capacities, room_occupancy>>

update_upcoming_occupants(updated_df) ==
    LET to_current == RowsWithStatus(updated_df, "Current")
        to_past    == RowsWithStatus(updated_df, "Past")
    IN  /\ upcoming_df' = RemoveByName(updated_df, to_current \o to_past)
        /\ current_df' = current_df \o to_current
        /\ past_df' = past_df \o to_past
        /\ last' = Call("update_upcoming_occupants", <<updated_df>>, "True")
        /\ UNCHANGED <<room_capacities, room_occupancy>>

update_past_occupants(updated_df) ==
    LET to_current  == RowsWithStatus(updated_df, "Current")
        to_upcoming == RowsWithStatus(updated_df, "Upcoming")
    IN  /\ past_df' = RemoveByName(updated_df, to_current \o to_upcoming)
        /\ current_df' = current_df \o to_current
        /\ upcoming_df' = upcoming_df \o to_upcoming
        /\ last' = Call("update_past_occupants", <<updated_df>>, "True")
        /\ UNCHANGED <<room_capacities, room_occupancy>>

\* Index of the first row whose Name equals name exactly; 0 when there is none.
FirstMatch(df, name) ==
    IF \E i \in 1..Len(df) : NameEq(df[i].Name, name)
    THEN CHOOSE i \in 1..Len(df) :
            /\ NameEq(df[i].Name, name)
            /\ \A j \in 1..(i - 1) : ~NameEq(df[j].Name, name)
    ELSE 0

\* df.loc[idx, 'Building'] = building; df.loc[idx, 'Office'] = office
AssignAt(df, idx, building, office) ==
    [df EXCEPT ![idx] = [@ EXCEPT !.Building = building, !.Office = office]]

assign_occupant_to_room(name, building, office, status) ==
    LET st  == IF status = "Current Occupants" THEN "Current"
               ELSE IF status = "Upcoming Occupants" THEN "Upcoming"
               ELSE status
        df  == IF st = "Current" THEN current_df ELSE upcoming_df
        idx == FirstMatch(df, name)
        ok  == st \in {"Current", "Upcoming"} /\ idx # 0
    IN  /\ current_df' = IF ok /\ st = "Current"
                         THEN AssignAt(current_df, idx, building, office)
                         ELSE current_df
        /\ upcoming_df' = IF ok /\ st = "Upcoming"
                          THEN AssignAt(upcoming_df, idx, building, office)
                          ELSE upcoming_df
        /\ last' = Call("assign_occupant_to_room",
                        <<name, building, office, status>>,
                        IF ok THEN "True" ELSE "False")
        /\ UNCHANGED <<past_df, room_capacities, room_occupancy>>

\* occupant_manager.delete_occupant(occupant_name, 'Current') as the current
\* occupants page calls it: OccupantManager has no attribute of that name, so
\* the lookup raises before anything runs, and the page's update_occupancy()
\* on the next line is not reached.
delete_occupant(name, status) ==
    /\ last' = Call("delete_occupant", <<name, status>>, "AttributeError")
    /\ UNCHANGED <<current_df, upcoming_df, past_df, room_capacities, room_occupancy>>

----------------------------------------------------------------------------
(* RoomManager *)

\* Variant: the record has the office as its building and the building as
\* its office.
SentinelSwapped(name, building, office) ==
    Row(name, "Current", "", "", building, office)

Sentinel(name, building, office) ==
    Row(name, "Current", "", "", office, building)

\* self.room_occupancy = RoomOccupancy(get_current_occupants(), room_capacities),
\* run at the end of a call.
\* Variant: the table is kept between computations and each one adds to it.
update_occupancy_appending ==
    room_occupancy' =
        room_occupancy \o calculate_occupancy(current_df', room_capacities')

update_occupancy ==
    room_occupancy' = calculate_occupancy(current_df', room_capacities')

\* The loop of initialize_room_capacities over the rows of the temporary
\* table, in the table's order: a later row with the same key overwrites.
RECURSIVE InitialCapacities(_, _)
InitialCapacities(rows, caps) ==
    IF rows = <<>> THEN caps
    ELSE LET row == Head(rows)
             key == RoomKey(row.Building, row.Office)
             default_capacity ==
                 IF row.IsStorage THEN 0
                 ELSE IF row.Occupants > 2 THEN row.Occupants ELSE 2
         IN  InitialCapacities(Tail(rows), DictSet(caps, key, default_capacity))

initialize_room_capacities(df) ==
    InitialCapacities(calculate_occupancy(df, EmptyDict), EmptyDict)

\* Start-up: an empty capacity table is initialised from the current
\* roster, a saved one is kept; then the RoomManager is built.
create_system_manager ==
    /\ room_capacities' =
          IF room_capacities = EmptyDict
          THEN initialize_room_capacities(current_df)
          ELSE room_capacities
    /\ UNCHANGED <<current_df, upcoming_df, past_df>>
    /\ last' = CallAt("create_system_manager", <<>>, "True",
                      [had_capacities |-> room_capacities # EmptyDict])
    /\ update_occupancy

\* The dashboard page: the table is computed again from the stores as they
\* are, and read.
show_dashboard ==
    /\ UNCHANGED <<current_df, upcoming_df, past_df, room_capacities>>
    /\ last' = Call("show_dashboard", <<>>, "True")
    /\ update_occupancy

\* What get_capacity(building, office) returns in the present state.
get_capacity(building, office) ==
    DictGet(room_capacities, RoomKey(building, office), DefaultCapacity)

set_capacity(building, office, capacity) ==
    /\ room_capacities' = DictSet(room_capacities, RoomKey(building, office), capacity)
    /\ last' = Call("set_capacity", <<building, office, capacity>>, "True")
    /\ UNCHANGED <<current_df, upcoming_df, past_df>>
    /\ update_occupancy

add_room(building, office, capacity, is_storage) ==
    /\ room_capacities' = DictSet(room_capacities, RoomKey(building, office), capacity)
    /\ current_df' = Append(current_df,
                            Sentinel(IF is_storage THEN "STORAGE" ELSE "PLACEHOLDER",
                                     building, office))
    /\ last' = Call("add_room", <<building, office, capacity, is_storage>>, "True")
    /\ UNCHANGED <<upcoming_df, past_df>>
    /\ update_occupancy

\* Variant: the sentinel rows of the room stay.
WithoutRoomKeepsSentinels(df, building, office) ==
    Filter(df, LAMBDA r : ~(InRoom(r, building, office) /\ IsRealName(r.Name)))

\* df[~mask] with mask = (df['Building'] == building) & (df['Office'] == office)
WithoutRoom(df, building, office) ==
    Filter(df, LAMBDA r : ~InRoom(r, building, office))

delete_room(building, office) ==
    /\ room_capacities' = DictDel(room_capacities, RoomKey(building, office))
    /\ current_df' = WithoutRoom(current_df, building, office)
    /\ upcoming_df' = WithoutRoom(upcoming_df, building, office)
    /\ past_df' = WithoutRoom(past_df, building, office)
    /\ last' = CallAt("delete_room", <<building, office>>, "True",
                      Found(building, office))
    /\ update_occupancy

\* storage_mask.any() over the current partition at (building, office)
HasStorage(df, building, office) ==
    \E i \in 1..Len(df) :
        InRoom(df[i], building, office) /\ NameContainsStorage(df[i].Name)

\* Variant: the new key is set and the old key is left in the table.
MoveCapacityKeepsOld(caps, old_key, new_key, new_capacity) ==
    [x \in DOMAIN caps \cup {new_key} |->
        IF x = new_key THEN new_capacity ELSE caps[x]]

\* del room_capacities[old_key] if present; room_capacities[new_key] = new_capacity
MoveCapacity(caps, old_key, new_key, new_capacity) ==
    DictSet(DictDel(caps, old_key), new_key, new_capacity)

\* Variant: only the building of the moved rows is rewritten.
RoomOccupantsBuildingOnly(df, building, office, new_building, new_office) ==
    LET at == SelectSeq(df, LAMBDA r : r.Building = building /\ r.Office = office)
    IN  [i \in 1..Len(at) |-> [at[i] EXCEPT !.Building = new_building]]

\* room_occupants: the rows at (building, office), rewritten to the new room.
RoomOccupants(df, building, office, new_building, new_office) ==
    LET at == Filter(df, LAMBDA r : InRoom(r, building, office))
    IN  [i \in 1..Len(at) |->
            [at[i] EXCEPT !.Building = new_building, !.Office = new_office]]

\* Variant: the moved rows are appended and the rows of the old room stay.
RelocateKeepsOld(df, building, office, new_building, new_office) ==
    df \o RoomOccupants(df, building, office, new_building, new_office)

\* df = pd.concat([df[~room_mask], room_occupants]) when the room has rows.
Relocate(df, building, office, new_building, new_office) ==
    LET moved == RoomOccupants(df, building, office, new_building, new_office)
    IN  IF moved = <<>> THEN df
        ELSE WithoutRoom(df, building, office) \o moved

\* Variant: STORAGE is added and the rows of the new room stay.
ConvertToStorageKeepsRows(df, new_building, new_office) ==
    Append(df, Sentinel("STORAGE", new_building, new_office))

\* regular -> storage: drop every current row at the new room, add STORAGE.
ConvertToStorage(df, new_building, new_office) ==
    Append(WithoutRoom(df, new_building, new_office),
           Sentinel("STORAGE", new_building, new_office))

\* Variant: PLACEHOLDER is added whether or not a row is left.
ConvertFromStorageAlwaysAdds(df, new_building, new_office) ==
    Append(Filter(df, LAMBDA r : ~(InRoom(r, new_building, new_office)
                                   /\ NameContainsStorage(r.Name))),
           Sentinel("PLACEHOLDER", new_building, new_office))

\* storage -> regular: drop the STORAGE rows at the new room; add PLACEHOLDER
\* when no row is left there.
ConvertFromStorage(df, new_building, new_office) ==
    LET kept == Filter(df, LAMBDA r : ~(InRoom(r, new_building, new_office)
                                        /\ NameContainsStorage(r.Name)))
    IN  IF \E i \in 1..Len(kept) : InRoom(kept[i], new_building, new_office)
        THEN kept
        ELSE Append(kept, Sentinel("PLACEHOLDER", new_building, new_office))

update_room(building, office, new_building, new_office, new_capacity, new_type) ==
    LET old_key         == RoomKey(building, office)
        new_key         == RoomKey(new_building, new_office)
        is_storage      == new_type = "Storage"
        was_storage     == HasStorage(current_df, building, office)
        changes_current == RoomOccupants(current_df, building, office,
                                         new_building, new_office)
        moved_current   == Relocate(current_df, building, office,
                                    new_building, new_office)
        \* changes_current is still the list [] when no current row was at the
        \* old room: [].empty raises AttributeError once the types differ.
        raises          == was_storage # is_storage /\ changes_current = <<>>
        convert         == was_storage # is_storage /\ changes_current # <<>>
    IN  /\ room_capacities' = MoveCapacity(room_capacities, old_key, new_key, new_capacity)
        /\ upcoming_df' = Relocate(upcoming_df, building, office, new_building, new_office)
        /\ past_df' = Relocate(past_df, building, office, new_building, new_office)
        /\ current_df' =
              IF convert /\ is_storage
              THEN ConvertToStorage(moved_current, new_building, new_office)
              ELSE IF convert
              THEN ConvertFromStorage(moved_current, new_building, new_office)
              ELSE moved_current
        /\ last' = CallAt("update_room",
                          <<building, office, new_building, new_office,
                            new_capacity, new_type>>,
                          IF raises THEN "AttributeError" ELSE "True",
                          Found(building, office))
        \* the exception leaves before self.update_occupancy()
        /\ IF raises THEN UNCHANGED room_occupancy ELSE update_occupancy

----------------------------------------------------------------------------
(* The room editor of the room management page *)

\* key.split(':'): the positions of the colons and, for a key with exactly
\* one, the two parts.  Unpacking any other number of parts into
\* (building, office) raises ValueError.
Colons(key) == {i \in 1..Len(key) : SubSeq(key, i, i) = ":"}

SplitKey(key) ==
    LET i == CHOOSE j \in Colons(key) : TRUE
    IN  <<SubSeq(key, 1, i - 1), SubSeq(key, i + 1, Len(key))>>

\* The stores as one value, for the calls the save handler makes in a row;
\* error is the exception a call has raised, if any.
Stores ==
    [current_df |-> current_df, upcoming_df |-> upcoming_df, past_df |-> past_df,
     room_capacities |-> room_capacities, error |-> ""]

\* RoomManager.delete_room on the stores s.
DeleteRoomIn(s, building, office) ==
    [s EXCEPT !.room_capacities = DictDel(@, RoomKey(building, office)),
              !.current_df = WithoutRoom(@, building, office),
              !.upcoming_df = WithoutRoom(@, building, office),
              !.past_df = WithoutRoom(@, building, office)]

\* RoomManager.add_room on the stores s.
AddRoomIn(s, building, office, capacity, is_storage) ==
    [s EXCEPT !.room_capacities = DictSet(@, RoomKey(building, office), capacity),
              !.current_df =
                  Append(@, Sentinel(IF is_storage THEN "STORAGE" ELSE "PLACEHOLDER",
                                     building, office))]

\* RoomManager.set_capacity on the stores s.
SetCapacityIn(s, building, office, capacity) ==
    [s EXCEPT !.room_capacities = DictSet(@, RoomKey(building, office), capacity)]

\* RoomManager.update_room on the stores s.
UpdateRoomIn(s, building, office, new_building, new_office, new_capacity, new_type) ==
    LET is_storage      == new_type = "Storage"
        was_storage     == HasStorage(s.current_df, building, office)
        changes_current == RoomOccupants(s.current_df, building, office,
                                         new_building, new_office)
        moved_current   == Relocate(s.current_df, building, office,
                                    new_building, new_office)
        raises          == was_storage # is_storage /\ changes_current = <<>>
        convert         == was_storage # is_storage /\ changes_current # <<>>
    IN  [room_capacities |-> MoveCapacity(s.room_capacities,
                                          RoomKey(building, office),
                                          RoomKey(new_building, new_office),
                                          new_capacity),
         upcoming_df |-> Relocate(s.upcoming_df, building, office,
                                  new_building, new_office),
         past_df     |-> Relocate(s.past_df, building, office,
                                  new_building, new_office),
         current_df  |-> IF convert /\ is_storage
                         THEN ConvertToStorage(moved_current, new_building, new_office)
                         ELSE IF convert
                         THEN ConvertFromStorage(moved_current, new_building, new_office)
                         ELSE moved_current,
         error       |-> IF raises THEN "AttributeError" ELSE ""]

\* One row of the grid: the columns of the table row that the handler reads.
GridRow(row) ==
    [Building |-> row.Building, Office |-> row.Office,
     Capacity |-> row.Max_Capacity,
     RoomType |-> IF row.IsStorage THEN "Storage" ELSE "Regular"]

\* filtered_df: the rows of the selected building, or all rows.
FilteredGrid(table, building_filter) ==
    LET shown == IF building_filter # "All"
                 THEN SelectSeq(table, LAMBDA r : r.Building = building_filter)
                 ELSE table
    IN  [i \in 1..Len(shown) |-> GridRow(shown[i])]

\* What st.data_editor returns after one edit of the user: a row removed, a
\* row's text cleared, its Building and Office cells overwritten, its
\* Capacity cell overwritten, or its Room Type switched.
ApplyEdit(grid, edit) ==
    LET at(r) == <<r.Building, r.Office>> = edit.room
    IN  IF edit.kind = "none" THEN grid
        ELSE IF edit.kind = "remove" THEN SelectSeq(grid, LAMBDA r : ~at(r))
        ELSE [i \in 1..Len(grid) |->
                IF ~at(grid[i]) THEN grid[i]
                ELSE IF edit.kind = "blank"
                THEN [grid[i] EXCEPT !.Building = "", !.Office = ""]
                ELSE IF edit.kind = "rename"
                THEN [grid[i] EXCEPT !.Building = edit.to[1], !.Office = edit.to[2]]
                ELSE IF edit.kind = "capacity"
                THEN [grid[i] EXCEPT !.Capacity = edit.capacity]
                ELSE [grid[i] EXCEPT !.RoomType =
                          IF @ = "Storage" THEN "Regular" ELSE "Storage"]]

\* The rows the handler does not skip as empty.
FilledRows(edited_df) ==
    SelectSeq(edited_df, LAMBDA r : r.Building # "" /\ r.Office # "")

\* existing_rooms: the rows of the whole table by key; of two rows with one
\* key the later one stays.
ExistingKeys(table) ==
    {RoomKey(table[i].Building, table[i].Office) : i \in 1..Len(table)}

ExistingRoom(table, key) ==
    LET rows == {i \in 1..Len(table) :
                    RoomKey(table[i].Building, table[i].Office) = key}
    IN  table[CHOOSE i \in rows : \A j \in rows : j <= i]

\* added_rooms: the filled rows whose key no table row has.
AddedRooms(table, rows) ==
    SelectSeq(rows, LAMBDA r : RoomKey(r.Building, r.Office) \notin ExistingKeys(table))

\* updated_rooms: the filled rows of existing rooms whose capacity or type
\* differs from the stored one.
UpdatedRooms(table, rows) ==
    SelectSeq(rows, LAMBDA r :
        LET room_key == RoomKey(r.Building, r.Office)
        IN  /\ room_key \in ExistingKeys(table)
            /\ \/ r.Capacity # get_capacity(SplitKey(room_key)[1], SplitKey(room_key)[2])
               \/ (r.RoomType = "Storage") # ExistingRoom(table, room_key).IsStorage)

\* deleted_rooms: the keys of the capacity table that no filled row has.
DeletedRooms(rows) ==
    {SplitKey(key) :
        key \in {k \in DOMAIN room_capacities :
                    \A i \in 1..Len(rows) :
                        RoomKey(rows[i].Building, rows[i].Office) # k}}

\* The first of the two scans splits the key of every filled row of an
\* existing room, the second one every key of the capacity table.
SplitRaises(table, rows) ==
    \/ \E i \in 1..Len(rows) :
          LET room_key == RoomKey(rows[i].Building, rows[i].Office)
          IN  room_key \in ExistingKeys(table) /\ Cardinality(Colons(room_key)) # 1
    \/ \E key \in DOMAIN room_capacities : Cardinality(Colons(key)) # 1

RECURSIVE DeleteRooms(_, _)
DeleteRooms(s, rooms) ==
    IF rooms = {} THEN s
    ELSE LET room == CHOOSE r \in rooms : TRUE
         IN  DeleteRooms(DeleteRoomIn(s, room[1], room[2]), rooms \ {room})

RECURSIVE AddRooms(_, _)
AddRooms(s, rows) ==
    IF rows = <<>> THEN s
    ELSE LET r == Head(rows)
         IN  AddRooms(AddRoomIn(s, r.Building, r.Office, r.Capacity,
                                r.RoomType = "Storage"),
                      Tail(rows))

RECURSIVE UpdateRooms(_, _, _)
UpdateRooms(s, rows, table) ==
    IF rows = <<>> \/ s.error # "" THEN s
    ELSE LET r == Head(rows)
             orig_is_storage ==
                 ExistingRoom(table, RoomKey(r.Building, r.Office)).IsStorage
             with_capacity == SetCapacityIn(s, r.Building, r.Office, r.Capacity)
         IN  UpdateRooms(
                 IF orig_is_storage # (r.RoomType = "Storage")
                 THEN UpdateRoomIn(with_capacity, r.Building, r.Office,
                                   r.Building, r.Office, r.Capacity, r.RoomType)
                 ELSE with_capacity,
                 Tail(rows), table)

\* The Edit Rooms tab with one building selected, one edit made in the grid
\* and "Save Room Changes" pressed.  The page computes the table on entry;
\* an exception of the handler is caught and shown.
save_room_changes(building_filter, edit) ==
    \E table \in {calculate_occupancy(current_df, room_capacities)} :
    \E grid \in {FilteredGrid(table, building_filter)} :
    \E rows \in {FilledRows(ApplyEdit(grid, edit))} :
    \E raises \in {SplitRaises(table, rows)} :
    \E done \in {IF raises THEN Stores
                 ELSE UpdateRooms(
                          AddRooms(DeleteRooms(Stores, DeletedRooms(rows)),
                                   AddedRooms(table, rows)),
                          UpdatedRooms(table, rows), table)} :
        /\ table # <<>>
        /\ building_filter = "All"
              \/ \E i \in 1..Len(table) : table[i].Building = building_filter
        /\ edit.kind = "none"
              \/ \E i \in 1..Len(grid) : <<grid[i].Building, grid[i].Office>> = edit.room
        /\ current_df' = done.current_df
        /\ upcoming_df' = done.upcoming_df
        /\ past_df' = done.past_df
        /\ room_capacities' = done.room_capacities
        /\ last' = Call("save_room_changes", <<building_filter, edit>>,
                        IF raises THEN "ValueError"
                        ELSE IF done.error # "" THEN done.error ELSE "True")
        /\ update_occupancy

----------------------------------------------------------------------------
(* Inputs *)

Statuses == {"Current", "Upcoming", "Past"}

\* What the people of the rosters have in their Email and Position columns.
EmailOf(name) == IF name = "Al" THEN "al@x.org" ELSE ""
PositionOf(name) == IF name \in {"Al", "Bo"} THEN "PhD" ELSE ""

Person(name, status, room) ==
    Row(name, status, EmailOf(name), PositionOf(name), room[2], room[1])

\* All sequences over S of length at most n.
SeqsUpTo(S, n) == UNION {[1..k -> S] : k \in 0..n}

TotalRows == Len(current_df) + Len(upcoming_df) + Len(past_df)

KeyOfRoom(room) == RoomKey(room[1], room[2])

Loaded == [op |-> "load", args |-> <<>>, result |-> "True", found |-> <<>>, seq |-> 0]

----------------------------------------------------------------------------
(* The occupant pages: rosters edited and submitted as whole batches, people *)
(* added and assigned, the one room created, retyped and deleted.            *)

MaxRecords == 2
MaxBatch == 2

PartNames == {"Al", NA}
PartRows == {Person(n, s, RoomA) : n \in PartNames, s \in Statuses}
PartBatches == SeqsUpTo(PartRows, MaxBatch)

InitPart ==
    /\ current_df = <<>>
    /\ upcoming_df = <<>>
    /\ past_df = <<>>
    /\ room_capacities = EmptyDict
    /\ room_occupancy = calculate_occupancy(current_df, room_capacities)
    /\ last = Loaded

NextPart ==
    \/ \E r \in PartRows, s \in Statuses :
          TotalRows < MaxRecords /\ add_occupant(r, s)
    \/ \E b \in PartBatches :
          /\ Len(b) + Len(upcoming_df) + Len(past_df) <= MaxRecords
          /\ update_current_occupants(b)
    \/ \E b \in PartBatches :
          /\ Len(b) + Len(current_df) + Len(past_df) <= MaxRecords
          /\ update_upcoming_occupants(b)
    \/ \E b \in PartBatches :
          /\ Len(b) + Len(current_df) + Len(upcoming_df) <= MaxRecords
          /\ update_past_occupants(b)
    \/ \E n \in PartNames, s \in Statuses :
          assign_occupant_to_room(n, RoomA[1], RoomA[2], s)
    \/ \E n \in PartNames \ {NA}, s \in Statuses : delete_occupant(n, s)
    \/ \E st \in BOOLEAN :
          TotalRows < MaxRecords /\ add_room(RoomA[1], RoomA[2], 2, st)
    \/ delete_room(RoomA[1], RoomA[2])
    \/ \E t \in {"Regular", "Storage"} :
          update_room(RoomA[1], RoomA[2], RoomA[1], RoomA[2], 2, t)

SpecPart == InitPart /\ [][NextPart]_vars

----------------------------------------------------------------------------
(* The room pages: people added to the three rosters, rooms created, resized, *)
(* renamed, retyped and deleted.                                              *)

MaxRoomRecords == 3

RoomRooms == {RoomA, RoomB}
RoomTypes == {"Regular", "Storage"}
RoomRows ==
    {Person(n, "Current", rm) : n \in {"Al", "old storage"}, rm \in RoomRooms}
    \cup {Person("Al", s, rm) : s \in {"Upcoming", "Past"}, rm \in RoomRooms}

InitRoom ==
    /\ current_df = <<>>
    /\ upcoming_df = <<>>
    /\ past_df = <<>>
    /\ room_capacities = EmptyDict
    /\ room_occupancy = calculate_occupancy(current_df, room_capacities)
    /\ last = Loaded

NextRoom ==
    \/ \E r \in RoomRows :
          TotalRows < MaxRoomRecords /\ add_occupant(r, r.Status)
    \/ \E rm \in RoomRooms, st \in BOOLEAN :
          TotalRows < MaxRoomRecords /\ add_room(rm[1], rm[2], 2, st)
    \/ \E rm \in RoomRooms : delete_room(rm[1], rm[2])
    \/ \E old \in RoomRooms, new \in RoomRooms, t \in RoomTypes :
          update_room(old[1], old[2], new[1], new[2], 2, t)

SpecRoom == InitRoom /\ [][NextRoom]_vars

----------------------------------------------------------------------------
(* A loaded roster with three people in room A, then rooms renamed, retyped *)
(* and deleted.                                                              *)

MaxExtra == 1

EvictRooms == {RoomA, RoomB}
EvictCrew ==
    <<Person("Al", "Current", RoomA), Person("Bo", "Current", RoomA),
      Person("Al", "Current", RoomA)>>
EvictCurrentExtras ==
    {Person("Al", "Current", RoomB), Sentinel("STORAGE", RoomB[1], RoomB[2]),
     Sentinel("PLACEHOLDER", RoomA[1], RoomA[2])}
EvictUpcomingExtras ==
    {Person("Al", "Upcoming", RoomA), Person("Al", "Upcoming", RoomB)}
EvictPastExtras == {Person("Al", "Past", RoomA)}

InitEvict ==
    /\ \E extra \in SeqsUpTo(EvictCurrentExtras, MaxExtra) :
          current_df = EvictCrew \o extra
    /\ upcoming_df \in SeqsUpTo(EvictUpcomingExtras, MaxExtra)
    /\ past_df \in SeqsUpTo(EvictPastExtras, MaxExtra)
    /\ room_capacities \in {EmptyDict, [k \in {RoomKey(RoomA[1], RoomA[2])} |-> 3]}
    /\ room_occupancy = calculate_occupancy(current_df, room_capacities)
    /\ last = Loaded

NextEvict ==
    \/ \E old \in EvictRooms, new \in EvictRooms, t \in RoomTypes :
          update_room(old[1], old[2], new[1], new[2], 2, t)
    \/ \E rm \in EvictRooms : delete_room(rm[1], rm[2])

SpecEvict == InitEvict /\ [][NextEvict]_vars

----------------------------------------------------------------------------
(* A loaded roster and an empty capacity table, then capacities set and *)
(* rooms renamed, retyped and deleted.                                  *)

MaxCap == 1

CapRooms == {RoomA, RoomB, RoomC}
CapMoves == {RoomA, RoomB}
CapSheets == {<<>>, <<Person("Al", "Current", RoomA)>>}

InitCap ==
    /\ current_df \in CapSheets
    /\ upcoming_df = <<>>
    /\ past_df = <<>>
    /\ room_capacities = EmptyDict
    /\ room_occupancy = calculate_occupancy(current_df, room_capacities)
    /\ last = Loaded

NextCap ==
    \/ \E rm \in CapRooms, c \in 0..MaxCap : set_capacity(rm[1], rm[2], c)
    \/ \E rm \in CapRooms : delete_room(rm[1], rm[2])
    \/ \E old \in CapMoves, new \in CapMoves, c \in 0..MaxCap, t \in RoomTypes :
          update_room(old[1], old[2], new[1], new[2], c, t)

SpecCap == InitCap /\ [][NextCap]_vars

----------------------------------------------------------------------------
(* The room page on a small roster: rooms created, resized and deleted, and *)
(* the occupancy table rebuilt after each.                                  *)

MaxTableRecords == 2

TableRooms == {RoomA, RoomB}
TableSheets == {<<>>, <<Person("Al", "Current", RoomA)>>}

InitTable ==
    /\ current_df \in TableSheets
    /\ upcoming_df = <<>>
    /\ past_df = <<>>
    /\ room_capacities = EmptyDict
    /\ room_occupancy = calculate_occupancy(current_df, room_capacities)
    /\ last = Loaded

NextTable ==
    \/ \E rm \in TableRooms :
          /\ Len(current_df) < MaxTableRecords
          /\ add_occupant(Person("Al", "Current", rm), "Current")
    \/ \E rm \in TableRooms, c \in 0..MaxCap, st \in BOOLEAN :
          Len(current_df) < MaxTableRecords /\ add_room(rm[1], rm[2], c, st)
    \/ \E rm \in TableRooms, c \in 0..MaxCap : set_capacity(rm[1], rm[2], c)
    \/ \E rm \in TableRooms : delete_room(rm[1], rm[2])

SpecTable == InitTable /\ [][NextTable]_vars

----------------------------------------------------------------------------
(* The dashboard over loaded workbooks: rosters of people and sentinels in *)
(* any order, records in the other two sheets, capacity tables with and    *)
(* without entries for the rooms of the roster.                            *)

MaxSheetRecords == 3

SheetRooms == {RoomA, RoomB}
SheetNames == {"Al", "old storage", "STORAGE", NA}
SheetRows == {Person(n, "Current", rm) : n \in SheetNames, rm \in SheetRooms}
SheetCapacities ==
    {EmptyDict,
     DictSet(EmptyDict, KeyOfRoom(RoomA), 0),
     DictSet(DictSet(EmptyDict, KeyOfRoom(RoomB), 1), KeyOfRoom(RoomC), 1)}

InitSheet ==
    /\ current_df \in SeqsUpTo(SheetRows, MaxSheetRecords)
    /\ upcoming_df \in {<<>>, <<Person("STORAGE", "Upcoming", RoomA)>>}
    /\ past_df \in {<<>>, <<Person("old storage", "Past", RoomB)>>}
    /\ room_capacities \in SheetCapacities
    /\ room_occupancy = calculate_occupancy(current_df, room_capacities)
    /\ last = Loaded

NextSheet == show_dashboard

SpecSheet == InitSheet /\ [][NextSheet]_vars

----------------------------------------------------------------------------
(* Start-up over saved workbooks whose rooms include the two with a colon *)
(* in their names, with and without a saved capacity table.                *)

BootRooms == {RoomA, RoomC, RoomD}
BootNames == {"Al", "STORAGE", "PLACEHOLDER"}
BootRows == {Person(n, "Current", rm) : n \in BootNames, rm \in BootRooms}

InitBoot ==
    /\ current_df \in SeqsUpTo(BootRows, MaxSheetRecords)
    /\ upcoming_df = <<>>
    /\ past_df = <<>>
    /\ room_capacities \in {EmptyDict, DictSet(EmptyDict, KeyOfRoom(RoomA), 1)}
    /\ room_occupancy = <<>>
    /\ last = Loaded

NextBoot == create_system_manager

SpecBoot == InitBoot /\ [][NextBoot]_vars

----------------------------------------------------------------------------
(* The room page of a building with rooms on floor 2, on floor 10 and in a *)
(* room whose number has no floor part.                                     *)

FloorRooms == {RoomE, RoomF, RoomG}

InitFloors ==
    /\ current_df = <<>>
    /\ upcoming_df = <<>>
    /\ past_df = <<>>
    /\ room_capacities = EmptyDict
    /\ room_occupancy = calculate_occupancy(current_df, room_capacities)
    /\ last = Loaded

NextFloors ==
    \/ \E rm \in FloorRooms, c \in 0..MaxCap, st \in BOOLEAN :
          Len(current_df) < MaxSheetRecords /\ add_room(rm[1], rm[2], c, st)
    \/ \E rm \in FloorRooms : delete_room(rm[1], rm[2])

SpecFloors == InitFloors /\ [][NextFloors]_vars

----------------------------------------------------------------------------
(* The room editor over workbooks with rooms in two buildings, records in  *)
(* all three sheets and capacity tables that know none of the rooms, the   *)
(* rooms of the roster, one more room, or a room with a colon in its name. *)

EditorRooms == {RoomA, RoomH}
EditorTargets == {RoomB}
EditorSheets ==
    {<<Person("Al", "Current", RoomA), Person("Al", "Current", RoomH)>>,
     <<Person("Al", "Current", RoomA), Person("STORAGE", "Current", RoomH)>>,
     <<Person("Al", "Current", RoomA)>>}
EditorCapacities ==
    LET roster == DictSet(DictSet(EmptyDict, KeyOfRoom(RoomA), 2), KeyOfRoom(RoomH), 2)
    IN  {EmptyDict, roster,
         DictSet(roster, KeyOfRoom(RoomB), 1),
         DictSet(roster, KeyOfRoom(RoomC), 1)}
EditorEdits ==
    {[kind |-> "none", room |-> RoomA, to |-> RoomA, capacity |-> 0]}
    \cup {[kind |-> k, room |-> r, to |-> r, capacity |-> 0] :
            k \in {"remove", "blank", "retype"}, r \in EditorRooms}
    \cup {[kind |-> "rename", room |-> r, to |-> t, capacity |-> 0] :
            r \in EditorRooms, t \in EditorTargets}
    \cup {[kind |-> "capacity", room |-> r, to |-> r, capacity |-> c] :
            r \in EditorRooms, c \in 0..MaxCap}

InitEditor ==
    /\ current_df \in EditorSheets
    /\ upcoming_df = <<Person("Al", "Upcoming", RoomA)>>
    /\ past_df = <<Person("Al", "Past", RoomH)>>
    /\ room_capacities \in EditorCapacities
    /\ room_occupancy = calculate_occupancy(current_df, room_capacities)
    /\ last = Loaded

NextEditor ==
    \E building_filter \in {"All"} \cup {rm[1] : rm \in EditorRooms},
       edit \in EditorEdits :
        save_room_changes(building_filter, edit)

SpecEditor == InitEditor /\ [][NextEditor]_vars

----------------------------------------------------------------------------
(* The room page with buildings and offices that have a colon in their *)
(* names.                                                               *)

KeyRooms == {RoomA, RoomC, RoomD}

InitKeys ==
    /\ current_df = <<>>
    /\ upcoming_df = <<>>
    /\ past_df = <<>>
    /\ room_capacities = EmptyDict
    /\ room_occupancy = calculate_occupancy(current_df, room_capacities)
    /\ last = Loaded

NextKeys ==
    \/ \E rm \in KeyRooms, c \in 0..MaxCap, st \in BOOLEAN :
          Len(current_df) < MaxTableRecords /\ add_room(rm[1], rm[2], c, st)
    \/ \E rm \in KeyRooms, c \in 0..MaxCap : set_capacity(rm[1], rm[2], c)
    \/ \E rm \in KeyRooms : delete_room(rm[1], rm[2])
    \/ \E old \in KeyRooms, new \in KeyRooms, c \in 0..MaxCap, t \in RoomTypes :
          update_room(old[1], old[2], new[1], new[2], c, t)

SpecKeys == InitKeys /\ [][NextKeys]_vars

----------------------------------------------------------------------------
(* The status of single rows of the grouped table, for every combination of *)
(* storage flag, occupants, remaining places and percentage.                *)

MaxOccupants == 2

StatusPercentages ==
    {[finite |-> TRUE, tenths |-> t] :
        t \in {-500, 0, 249, 250, 251, 499, 500, 501, 749, 750, 751, 999, 1000, 1500}}
    \cup {[finite |-> FALSE, tenths |-> 0]}

StatusRows ==
    [IsStorage : BOOLEAN, Occupants : 0..MaxOccupants,
     Remaining : (-1)..MaxOccupants, Percentage : StatusPercentages]

InitStatus ==
    /\ current_df = <<>>
    /\ upcoming_df = <<>>
    /\ past_df = <<>>
    /\ room_capacities = EmptyDict
    /\ room_occupancy = <<>>
    /\ last = Loaded

NextStatus == \E row \in StatusRows : apply_get_room_status(row)

SpecStatus == InitStatus /\ [][NextStatus]_vars

----------------------------------------------------------------------------
(* A loaded roster with namesakes in every partition, and people assigned to *)
(* rooms from the room page and the occupant pages.                          *)

AssignRooms == {RoomA, RoomB}
AssignNames == {"Al", "Bo", NA}
AssignStatuses == Statuses \cup {"Current Occupants", "Upcoming Occupants"}

InitAssign ==
    /\ current_df = EvictCrew
    /\ upcoming_df = <<Person("Al", "Upcoming", RoomA), Person("Al", "Upcoming", RoomA)>>
    /\ past_df = <<Person("Al", "Past", RoomA)>>
    /\ room_capacities = EmptyDict
    /\ room_occupancy = calculate_occupancy(current_df, room_capacities)
    /\ last = Loaded

NextAssign ==
    \E n \in AssignNames, rm \in AssignRooms, s \in AssignStatuses :
        assign_occupant_to_room(n, rm[1], rm[2], s)

SpecAssign == InitAssign /\ [][NextAssign]_vars

----------------------------------------------------------------------------
(* Properties *)

RowsOf(df) == {df[i] : i \in 1..Len(df)}
Count(df, x) == CountRows(df, LAMBDA r : r = x)
SameBag(s, t) == \A x \in RowsOf(s) \cup RowsOf(t) : Count(s, x) = Count(t, x)
NoneAt(df, room) == \A i \in 1..Len(df) : ~InRoom(df[i], room[1], room[2])

\* A row as it reads once the room old is renamed to new.
MoveRow(r, old, new) ==
    IF InRoom(r, old[1], old[2])
    THEN [r EXCEPT !.Building = new[1], !.Office = new[2]]
    ELSE r
MovedDf(df, old, new) == [i \in 1..Len(df) |-> MoveRow(df[i], old, new)]

\* Name, Status, Email address and Position of every row.
Identities(df) ==
    [i \in 1..Len(df) |-> <<df[i].Name, df[i].Status, df[i].Email, df[i].Position>>]

\* The three partitions, each before and after a step.
Partitions ==
    {<<"Current", current_df, current_df'>>,
     <<"Upcoming", upcoming_df, upcoming_df'>>,
     <<"Past", past_df, past_df'>>}

IsUpdateOf(c, status) ==
    \/ status = "Current" /\ c.op = "update_current_occupants"
    \/ status = "Upcoming" /\ c.op = "update_upcoming_occupants"
    \/ status = "Past" /\ c.op = "update_past_occupants"

\* C1: every record held in a partition has the Status naming that partition.
C1_StatusMatchesPartition ==
    /\ \A i \in 1..Len(current_df) : current_df[i].Status = "Current"
    /\ \A i \in 1..Len(upcoming_df) : upcoming_df[i].Status = "Upcoming"
    /\ \A i \in 1..Len(past_df) : past_df[i].Status = "Past"

\* C2: after the update of partition P with a batch, every row of the batch
\* whose Status names another partition S is in S, unchanged, and not in P.
C2_RelocatedAndGone ==
    [][\A P \in Partitions : IsUpdateOf(last', P[1]) =>
          \A S \in Partitions, r \in RowsOf(last'.args[1]) :
              (r.Status = S[1] /\ S[1] # P[1]) =>
                  (Count(S[3], r) >= 1 /\ Count(P[3], r) = 0)]_vars

\* C3: after the update of partition P with a batch, P holds exactly the rows
\* of the batch whose Status is P, each as often as the batch has it.
C3_KeepsOwnRows ==
    [][\A P \in Partitions : IsUpdateOf(last', P[1]) =>
          SameBag(P[3], SelectSeq(last'.args[1], LAMBDA r : r.Status = P[1]))]_vars

\* The arguments of a recorded update_room or delete_room call.
OldRoom(c) == <<c.args[1], c.args[2]>>
NewRoom(c) == <<c.args[3], c.args[4]>>
KeyOf(room) == RoomKey(room[1], room[2])
IsRetype(c, was_storage, new_type) ==
    /\ c.op = "update_room"
    /\ c.found.was_storage = was_storage
    /\ c.args[6] = new_type

\* C4: after delete_room(building, office) the capacity table has no entry
\* for the room's key and no partition holds a record at that building and
\* office.
C4_DeleteRoomLeavesNothing ==
    [][last'.op = "delete_room" =>
          /\ KeyOf(OldRoom(last')) \notin DOMAIN room_capacities'
          /\ \A P \in Partitions : NoneAt(P[3], OldRoom(last'))]_vars

C4_Witness ==
    /\ last.op = "delete_room"
    /\ last.found.had_capacity
    /\ \A i \in 1..3 : last.found.rows[i] >= 1
    /\ \A P \in {current_df, upcoming_df, past_df} : NoneAt(P, OldRoom(last))

\* C5: update_room to type Storage on a regular room holding three real
\* current occupants removes those three from the current roster, leaves
\* exactly one current record named STORAGE at the new location, and, when the
\* key changes, leaves no capacity entry and no record under the old location.
C5_StorageEvictsCrew ==
    [][(/\ last'.op = "update_room"
        /\ last'.args[6] = "Storage"
        /\ ~HasStorage(current_df, last'.args[1], last'.args[2])
        /\ CountRows(current_df, LAMBDA r :
              InRoom(r, last'.args[1], last'.args[2]) /\ IsRealName(r.Name)) = 3)
       =>
       LET old == OldRoom(last')
           new == NewRoom(last')
       IN  /\ \A x \in RowsOf(current_df) :
                  (InRoom(x, old[1], old[2]) /\ IsRealName(x.Name)) =>
                      /\ Count(current_df', x) = 0
                      /\ Count(current_df', MoveRow(x, old, new)) = 0
           /\ CountRows(current_df', LAMBDA r :
                  InRoom(r, new[1], new[2]) /\ r.Name = "STORAGE") = 1
           /\ CountRows(current_df', LAMBDA r : InRoom(r, new[1], new[2])) = 1
           /\ KeyOf(old) # KeyOf(new) =>
                  /\ KeyOf(old) \notin DOMAIN room_capacities'
                  /\ \A P \in Partitions : NoneAt(P[3], old)]_vars

C5_Witness ==
    /\ IsRetype(last, FALSE, "Storage")
    /\ last.result = "True"
    /\ last.found.real = 3
    /\ last.found.had_capacity
    /\ KeyOf(OldRoom(last)) # KeyOf(NewRoom(last))
    /\ CountRows(current_df, LAMBDA r :
          InRoom(r, last.args[3], last.args[4]) /\ r.Name = "STORAGE") = 1
    /\ \A i \in 1..Len(current_df) : ~IsRealName(current_df[i].Name)

\* C6: update_room that leaves the room's type unchanged puts every record
\* of the old location, in each of the three partitions, at the new location
\* in the same partition with its other fields unchanged, and leaves no record
\* at the old location when the location changes.
C6_RelocatesEveryPartition ==
    [][(/\ last'.op = "update_room"
        /\ (last'.args[6] = "Storage")
              = HasStorage(current_df, last'.args[1], last'.args[2]))
       =>
       LET old == OldRoom(last')
           new == NewRoom(last')
       IN  \A P \in Partitions :
              /\ \A y \in RowsOf(MovedDf(P[2], old, new)) :
                    InRoom(y, new[1], new[2]) =>
                        Count(P[3], y) = Count(MovedDf(P[2], old, new), y)
              /\ old # new => NoneAt(P[3], old)]_vars

C6_Witness ==
    /\ IsRetype(last, FALSE, "Regular")
    /\ last.result = "True"
    /\ OldRoom(last) # NewRoom(last)
    /\ \A i \in 1..3 : last.found.rows[i] >= 1
    /\ \E i \in 1..Len(current_df) : InRoom(current_df[i], last.args[3], last.args[4])
    /\ \E i \in 1..Len(upcoming_df) : InRoom(upcoming_df[i], last.args[3], last.args[4])
    /\ \E i \in 1..Len(past_df) : InRoom(past_df[i], last.args[3], last.args[4])

\* C7: after update_room the capacity table maps the new key to new_capacity,
\* has no entry for the old key when the two keys differ, and has every other
\* entry as before.
C7_CapacityMoves ==
    [][last'.op = "update_room" =>
          LET old_key == KeyOf(OldRoom(last'))
              new_key == KeyOf(NewRoom(last'))
          IN  /\ new_key \in DOMAIN room_capacities'
              /\ room_capacities'[new_key] = last'.args[5]
              /\ old_key # new_key => old_key \notin DOMAIN room_capacities'
              /\ \A k \in (DOMAIN room_capacities \cup DOMAIN room_capacities')
                            \ {old_key, new_key} :
                    /\ k \in DOMAIN room_capacities
                    /\ k \in DOMAIN room_capacities'
                    /\ room_capacities'[k] = room_capacities[k]]_vars

C7_Witness ==
    /\ last.op = "update_room"
    /\ last.found.had_capacity
    /\ KeyOf(OldRoom(last)) # KeyOf(NewRoom(last))
    /\ KeyOf(OldRoom(last)) \notin DOMAIN room_capacities
    /\ DictGet(room_capacities, KeyOf(NewRoom(last)), -1) = last.args[5]
    /\ \E k \in DOMAIN room_capacities : k # KeyOf(NewRoom(last))

\* C8: update_room that turns a regular room into a storage room leaves, in
\* all three partitions together, exactly one record at the new location: the
\* STORAGE sentinel in the current partition.
C8_StorageEmptiesAllPartitions ==
    [][(IsRetype(last', FALSE, "Storage") /\ last'.result = "True") =>
          LET new == NewRoom(last')
          IN  /\ Count(current_df', Sentinel("STORAGE", new[1], new[2])) = 1
              /\ CountRows(current_df', LAMBDA r : InRoom(r, new[1], new[2])) = 1
              /\ NoneAt(upcoming_df', new)
              /\ NoneAt(past_df', new)]_vars

\* C9: update_room that turns a storage room into a regular room removes the
\* current records at the new location whose name contains STORAGE in any
\* letter case, keeps every other current record there, and adds one
\* PLACEHOLDER record there exactly when no other record is left there.
C9_StorageToRegular ==
    [][(/\ last'.op = "update_room"
        /\ last'.args[6] # "Storage"
        /\ HasStorage(current_df, last'.args[1], last'.args[2]))
       =>
       LET new == NewRoom(last')
           moved == MovedDf(current_df, OldRoom(last'), new)
           placeholder == Sentinel("PLACEHOLDER", new[1], new[2])
           Gone(y) == InRoom(y, new[1], new[2]) /\ NameContainsStorage(y.Name)
           left == \E i \in 1..Len(moved) :
                      InRoom(moved[i], new[1], new[2]) /\ ~Gone(moved[i])
       IN  /\ \A i \in 1..Len(current_df') : ~Gone(current_df'[i])
           /\ \A y \in RowsOf(moved) \cup RowsOf(current_df') :
                  (InRoom(y, new[1], new[2]) /\ ~Gone(y) /\ y # placeholder) =>
                      Count(current_df', y) = Count(moved, y)
           /\ Count(current_df', placeholder)
                 = Count(moved, placeholder) + (IF left THEN 0 ELSE 1)]_vars

C9_Witness ==
    /\ IsRetype(last, TRUE, "Regular")
    /\ last.result = "True"
    /\ last.found.rows[1] = 1
    /\ OldRoom(last) = NewRoom(last)
    /\ Count(current_df, Sentinel("PLACEHOLDER", last.args[3], last.args[4])) = 1
    /\ CountRows(current_df, LAMBDA r : InRoom(r, last.args[3], last.args[4])) = 1

\* C10: update_room that leaves the room's type unchanged adds no record and
\* removes none: each partition keeps its number of records and their names,
\* statuses, e-mail addresses and positions, and every record away from the
\* old location stays as it was.
C10_UnchangedTypeKeepsRecords ==
    [][(/\ last'.op = "update_room"
        /\ (last'.args[6] = "Storage")
              = HasStorage(current_df, last'.args[1], last'.args[2]))
       =>
       \A P \in Partitions :
          /\ Len(P[3]) = Len(P[2])
          /\ SameBag(Identities(P[3]), Identities(P[2]))
          /\ \A x \in RowsOf(P[2]) :
                ~InRoom(x, last'.args[1], last'.args[2]) =>
                    Count(P[3], x) >= Count(P[2], x)]_vars

C10_Witness ==
    /\ IsRetype(last, TRUE, "Storage")
    /\ last.result = "True"
    /\ OldRoom(last) # NewRoom(last)
    /\ last.found.rows[1] >= 2
    /\ CountRows(current_df, LAMBDA r : InRoom(r, last.args[3], last.args[4])) >= 2
    /\ Len(current_df) + Len(upcoming_df) + Len(past_df) = 3

Unchanged(P) == P[3] = P[2]

\* The partition a status names, in the form the pages pass it.
StatusOf(status) ==
    IF status = "Current Occupants" THEN "Current"
    ELSE IF status = "Upcoming Occupants" THEN "Upcoming"
    ELSE status

\* C12: assign_room(name, building, office, status) looks the name up in the
\* partition named by status, Current, Upcoming or Past.  Without a match it
\* reports failure and no partition changes; with a match it reports success,
\* the first matching record gets the building and office, and every other
\* record and field stays as it was.
C12_AssignInNamedPartition ==
    [][last'.op = "assign_occupant_to_room" =>
          \A P \in Partitions : P[1] = StatusOf(last'.args[4]) =>
              LET idx == FirstMatch(P[2], last'.args[1])
              IN  IF idx = 0
                  THEN /\ last'.result = "False"
                       /\ \A Q \in Partitions : Unchanged(Q)
                  ELSE /\ last'.result = "True"
                       /\ P[3] = AssignAt(P[2], idx, last'.args[2], last'.args[3])
                       /\ \A Q \in Partitions \ {P} : Unchanged(Q)]_vars

\* C13: delete(name, status) completes without raising.  For a name present in
\* the named partition it reports success, that partition loses the records of
\* that name and keeps the others, and the other two partitions stay as they
\* were; for an absent name it reports failure and nothing changes.
C13_DeleteOccupant ==
    [][last'.op = "delete_occupant" =>
          \A P \in Partitions : P[1] = last'.args[2] =>
              IF \E i \in 1..Len(P[2]) : P[2][i].Name = last'.args[1]
              THEN /\ last'.result = "True"
                   /\ P[3] = SelectSeq(P[2], LAMBDA r : r.Name # last'.args[1])
                   /\ \A Q \in Partitions \ {P} : Unchanged(Q)
              ELSE /\ last'.result = "False"
                   /\ \A Q \in Partitions : Unchanged(Q)]_vars

TableHasRoom(table, building, office) ==
    \E i \in 1..Len(table) :
        table[i].Building = building /\ table[i].Office = office

\* C11: after add_room(building, office, capacity, is_storage) the capacity
\* table maps the room's key to capacity, the current partition has one more
\* record, at that building and office with Status Current, named STORAGE if
\* is_storage and PLACEHOLDER otherwise, and the occupancy table has a row for
\* the room.
C11_AddRoomInsertsSentinel ==
    [][last'.op = "add_room" =>
          LET building == last'.args[1]
              office   == last'.args[2]
              record   == [Name     |-> IF last'.args[4] THEN "STORAGE" ELSE "PLACEHOLDER",
                           Status   |-> "Current",
                           Email    |-> "",
                           Position |-> "",
                           Office   |-> office,
                           Building |-> building]
          IN  /\ KeyOf(<<building, office>>) \in DOMAIN room_capacities'
              /\ room_capacities'[KeyOf(<<building, office>>)] = last'.args[3]
              /\ Len(current_df') = Len(current_df) + 1
              /\ Count(current_df', record) = Count(current_df, record) + 1
              /\ \A x \in RowsOf(current_df) : Count(current_df', x) >= Count(current_df, x)
              /\ TableHasRoom(room_occupancy', building, office)]_vars

C11_Witness ==
    /\ last.op = "add_room"
    /\ ~last.args[4]
    /\ last.args[3] = 0
    /\ Len(current_df) = 2
    /\ Len(room_occupancy) = 2
    /\ \A i \in 1..Len(current_df) :
          InRoom(current_df[i], last.args[1], last.args[2]) =>
              current_df[i].Name = "PLACEHOLDER"

\* A call that targets the room: a capacity or room call on it, or a rename
\* from it or to it.
Targets(c, room) ==
    \/ c.op \in {"set_capacity", "add_room", "delete_room"} /\ OldRoom(c) = room
    \/ c.op = "update_room" /\ (OldRoom(c) = room \/ NewRoom(c) = room)

\* C14: get_capacity answers 2 for a room without an entry; after
\* set_capacity(building, office, v) it answers v for that room, and the
\* answer for a room stays the same over every call that does not target that
\* room; set_capacity on a room that has an entry adds no entry.
C14_CapacityReadsBack ==
    [][\A rm \in KnownRooms :
          /\ KeyOf(rm) \notin DOMAIN room_capacities' => get_capacity(rm[1], rm[2])' = 2
          /\ (last'.op = "set_capacity" /\ OldRoom(last') = rm) =>
                /\ get_capacity(rm[1], rm[2])' = last'.args[3]
                /\ Cardinality(DOMAIN room_capacities')
                      = Cardinality(DOMAIN room_capacities)
                        + (IF KeyOf(rm) \in DOMAIN room_capacities THEN 0 ELSE 1)
          /\ ~Targets(last', rm) =>
                get_capacity(rm[1], rm[2])' = get_capacity(rm[1], rm[2])]_vars

\* C15: set_capacity, add_room or delete_room on one (building, office) pair
\* leaves the capacity of every other pair as it was, also for names that
\* have a colon in them.
C15_CapacityPerPair ==
    [][last'.op \in {"set_capacity", "add_room", "delete_room"} =>
          \A rm \in KnownRooms \ {OldRoom(last')} :
              get_capacity(rm[1], rm[2])' = get_capacity(rm[1], rm[2])]_vars

\* The rooms and summaries the pages show: the rows of the occupancy table,
\* of the building summary and of the floor summary.
TableRows == {room_occupancy[i] : i \in 1..Len(room_occupancy)}
SummaryRows ==
    get_building_summary(room_occupancy) \cup get_floor_summary(room_occupancy, "All")

\* C16: in the occupancy table a room's occupants are its current records
\* whose name has neither STORAGE nor PLACEHOLDER in it, in any letter case;
\* a room with only a sentinel has 0 occupants.
C16_OccupantsAreRealPeople ==
    [][last'.op \in {"add_room", "set_capacity", "delete_room"} =>
          \A i \in 1..Len(room_occupancy') :
              room_occupancy'[i].Occupants =
                  CountRows(current_df', LAMBDA r :
                      /\ InRoom(r, room_occupancy'[i].Building, room_occupancy'[i].Office)
                      /\ IsRealName(r.Name))]_vars

\* C17: in every row of the occupancy table occupants plus remaining is the
\* maximum capacity, and occupants is not negative.
C17_RemainingComplements ==
    \A row \in TableRows :
        /\ row.Occupants + row.Remaining = row.Max_Capacity
        /\ row.Occupants >= 0

C17_Witness ==
    /\ \E row \in TableRows :
          row.Occupants = 2 /\ row.Max_Capacity = 1 /\ row.Remaining < 0
    /\ room_occupancy = calculate_occupancy(current_df, room_capacities)

\* C19: a room with maximum capacity 0 has the finite percentage 0, and so
\* has a building or floor summary whose capacities add up to 0; with a
\* capacity above 0 the percentage is occupants / capacity * 100 to one
\* decimal.
C19_ZeroCapacityPercentage ==
    /\ \A row \in TableRows :
          IF row.Max_Capacity = 0
          THEN row.Percentage.finite /\ row.Percentage.tenths = 0
          ELSE row.Max_Capacity > 0 =>
                  /\ row.Percentage.finite
                  /\ 2 * (row.Percentage.tenths * row.Max_Capacity - row.Occupants * 1000)
                        <= row.Max_Capacity
                  /\ 2 * (row.Occupants * 1000 - row.Percentage.tenths * row.Max_Capacity)
                        <= row.Max_Capacity
    /\ \A row \in SummaryRows :
          row.Max_Capacity = 0 =>
              row.OccupancyRate.finite /\ row.OccupancyRate.tenths = 0

\* A percentage that is at most n percent; an infinite one is not.
AtMost(percentage, n) == percentage.finite /\ percentage.tenths <= 10 * n

\* The table of statuses in its order of priority, for one row.
StatusTable(row) ==
    <<  <<row.IsStorage, "storage">>,
        <<row.Occupants = 0, "vacant">>,
        <<row.Remaining < 0, "overfilled">>,
        <<AtMost(row.Percentage, 25), "low">>,
        <<AtMost(row.Percentage, 50), "medium">>,
        <<AtMost(row.Percentage, 75), "high">>,
        <<TRUE, "full">>  >>

\* C18: the status of a row is the first match of the table: storage, then
\* vacant for no occupants, then overfilled for negative remaining, then low,
\* medium and high up to and including 25, 50 and 75 percent, then full; it
\* depends on nothing else and is one of these seven.
C18_StatusIsFirstMatch ==
    [][last'.op = "_get_room_status" =>
          LET table == StatusTable(last'.args[1])
          IN  /\ last'.result \in {"storage", "vacant", "overfilled", "low",
                                   "medium", "high", "full"}
              /\ \E k \in 1..Len(table) :
                    /\ table[k][1]
                    /\ \A j \in 1..(k - 1) : ~table[j][1]
                    /\ last'.result = table[k][2]]_vars

C18_Witness ==
    /\ last.op = "_get_room_status"
    /\ ~last.args[1].IsStorage
    /\ last.args[1].Occupants = 0
    /\ last.args[1].Remaining < 0
    /\ last.result = "vacant"

\* C20: update_room ends with a result of success or failure and raises
\* nothing, whatever the arguments and the stores, also for a room without a
\* current record and the type Storage.
C20_UpdateRoomNeverRaises ==
    [][last'.op = "update_room" => last'.result \in {"True", "False"}]_vars

----------------------------------------------------------------------------
----------------------------------------------------------------------------
(* C22: after every mutating operation on either store the table that       *)
(* RoomManager.get_occupancy_data() returns is the table computed from the   *)
(* current partition and the capacity table as they are then.                *)
C22_TableNeverStale ==
    room_occupancy = calculate_occupancy(current_df, room_capacities)

----------------------------------------------------------------------------
(* C23: a row of the derived table is flagged as storage exactly when some   *)
(* record of the current partition at the row's building and office has a    *)
(* name with the word STORAGE in it, in capitals or not.  Records of other   *)
(* rooms, records of the upcoming and past partitions and the capacity table *)
(* have no part in it.                                                       *)
StorageNamed == {"STORAGE", "old storage"}

C23_StorageFlagFromCurrentNames ==
    \A i \in 1..Len(room_occupancy) :
        room_occupancy[i].IsStorage <=>
            \E j \in 1..Len(current_df) :
                /\ current_df[j].Building = room_occupancy[i].Building
                /\ current_df[j].Office = room_occupancy[i].Office
                /\ current_df[j].Name \in StorageNamed

\* A regular room with capacity 0 and a STORAGE record in the upcoming
\* partition, next to a room that a record named in small letters makes
\* storage.
C23_Witness ==
    /\ last.op = "show_dashboard"
    /\ Len(room_occupancy) = 2
    /\ \E i, j \in 1..Len(room_occupancy) :
          /\ <<room_occupancy[i].Building, room_occupancy[i].Office>> = RoomA
          /\ ~room_occupancy[i].IsStorage
          /\ room_occupancy[i].Max_Capacity = 0
          /\ room_occupancy[j].IsStorage
    /\ \E k \in 1..Len(upcoming_df) :
          upcoming_df[k].Name = "STORAGE" /\ InRoom(upcoming_df[k], RoomA[1], RoomA[2])
    /\ \A k \in 1..Len(current_df) : current_df[k].Name # "STORAGE"

----------------------------------------------------------------------------
(* C24: the derived table has exactly one row for every (building, office)   *)
(* that some record of the current partition has, with or without an entry   *)
(* in the capacity table, and no other row: records of the upcoming and past *)
(* partitions and rooms that only the capacity table knows give no row, and  *)
(* an empty roster gives an empty table.                                     *)
RowsAt(table, room) ==
    Cardinality({i \in 1..Len(table) :
                    <<table[i].Building, table[i].Office>> = room})

C24_OneRowPerCurrentRoom ==
    /\ \A room \in KnownRooms :
          RowsAt(room_occupancy, room) =
              IF \E j \in 1..Len(current_df) :
                     <<current_df[j].Building, current_df[j].Office>> = room
              THEN 1 ELSE 0
    /\ \A i \in 1..Len(room_occupancy) :
          <<room_occupancy[i].Building, room_occupancy[i].Office>> \in KnownRooms
    /\ current_df = <<>> => room_occupancy = <<>>

\* Three current records in room A, which has no capacity entry; room B has
\* a capacity entry and a past record, room C a capacity entry only.
C24_Witness ==
    /\ last.op = "show_dashboard"
    /\ Len(current_df) = 3
    /\ Len(room_occupancy) = 1
    /\ RowsAt(room_occupancy, RoomA) = 1
    /\ past_df # <<>>
    /\ DOMAIN room_capacities = {KeyOf(RoomB), KeyOf(RoomC)}

----------------------------------------------------------------------------
(* C25: initialising an empty capacity table from the current roster gives    *)
(* exactly one entry per room of the roster: 0 for a storage room, otherwise  *)
(* the larger of the room's number of current records and 2.  A room with two *)
(* people and no sentinel gets capacity 2 and the status full.                *)
ObservedRooms(df) == {<<df[i].Building, df[i].Office>> : i \in 1..Len(df)}

RecordsAt(df, room) ==
    Cardinality({i \in 1..Len(df) : <<df[i].Building, df[i].Office>> = room})

C25_InitialCapacities ==
    [][(last'.op = "create_system_manager" /\ ~last'.found.had_capacities) =>
          /\ Cardinality(DOMAIN room_capacities') =
                 Cardinality(ObservedRooms(current_df))
          /\ \A room \in ObservedRooms(current_df) :
                /\ KeyOf(room) \in DOMAIN room_capacities'
                /\ room_capacities'[KeyOf(room)] =
                      IF \E i \in 1..Len(current_df) :
                             /\ <<current_df[i].Building, current_df[i].Office>> = room
                             /\ current_df[i].Name \in StorageNamed
                      THEN 0
                      ELSE IF RecordsAt(current_df, room) > 2
                      THEN RecordsAt(current_df, room) ELSE 2
          /\ \A i \in 1..Len(room_occupancy') :
                (/\ room_occupancy'[i].Occupants = 2
                 /\ \A j \in 1..Len(current_df) :
                       current_df[j].Name \notin {"STORAGE", "PLACEHOLDER"})
                => /\ room_occupancy'[i].Max_Capacity = 2
                   /\ room_occupancy'[i].Status = "full"]_vars

----------------------------------------------------------------------------
(* C26: the rows of the derived table are in the order of their buildings,   *)
(* within a building in the order of their floors taken as numbers, a floor  *)
(* that is no number after every floor that is one, and within a floor in    *)
(* the order of their offices: floor 2 comes before floor 10.                *)
Digits == "0123456789"

IsNumber(s) ==
    /\ Len(s) > 0
    /\ \A i \in 1..Len(s) : \E d \in 1..Len(Digits) : SubSeq(s, i, i) = SubSeq(Digits, d, d)

RECURSIVE NumberOf(_)
NumberOf(s) ==
    IF Len(s) = 0 THEN 0
    ELSE LET d == CHOOSE k \in 1..Len(Digits) :
                      SubSeq(s, Len(s), Len(s)) = SubSeq(Digits, k, k)
         IN  10 * NumberOf(SubSeq(s, 1, Len(s) - 1)) + (d - 1)

FloorBefore(f1, f2) ==
    IF IsNumber(f1) /\ IsNumber(f2) THEN NumberOf(f1) < NumberOf(f2)
    ELSE IF IsNumber(f1) THEN TRUE
    ELSE IF IsNumber(f2) THEN FALSE
    ELSE StrBefore(f1, f2)

NumericRowBefore(r1, r2) ==
    \/ StrBefore(r1.Building, r2.Building)
    \/ /\ r1.Building = r2.Building
       /\ \/ FloorBefore(r1.Floor, r2.Floor)
          \/ r1.Floor = r2.Floor /\ StrBefore(r1.Office, r2.Office)

C26_FloorsInNumericOrder ==
    \A i, j \in 1..Len(room_occupancy) :
        i < j => NumericRowBefore(room_occupancy[i], room_occupancy[j])

----------------------------------------------------------------------------
(* C27: whatever add_room, set_capacity, update_room and delete_room calls   *)
(* were made from empty stores, no (building, office) has more than one      *)
(* sentinel record (named STORAGE or PLACEHOLDER) in the current partition,  *)
(* and none has a STORAGE and a PLACEHOLDER record together.                 *)
SentinelsAt(room, names) ==
    Cardinality({i \in 1..Len(current_df) :
                    /\ <<current_df[i].Building, current_df[i].Office>> = room
                    /\ current_df[i].Name \in names})

C27_OneSentinelPerRoom ==
    \A room \in KnownRooms :
        /\ SentinelsAt(room, {"STORAGE", "PLACEHOLDER"}) <= 1
        /\ ~(SentinelsAt(room, {"STORAGE"}) > 0 /\ SentinelsAt(room, {"PLACEHOLDER"}) > 0)

----------------------------------------------------------------------------
(* C28: delete_room(building, office) changes nothing outside that room: the *)
(* records of every other (building, office), in all three partitions, and   *)
(* the capacity entry of every other room are after the call what they were  *)
(* before it.                                                                *)
Elsewhere(df, room) ==
    SelectSeq(df, LAMBDA r : <<r.Building, r.Office>> # room)

C28_DeleteRoomFrame ==
    [][last'.op = "delete_room" =>
          LET room == <<last'.args[1], last'.args[2]>>
          IN  /\ \A P \in Partitions : Elsewhere(P[3], room) = Elsewhere(P[2], room)
              /\ \A other \in KnownRooms \ {room} :
                    /\ (KeyOf(other) \in DOMAIN room_capacities')
                          = (KeyOf(other) \in DOMAIN room_capacities)
                    /\ get_capacity(other[1], other[2])'
                          = get_capacity(other[1], other[2])]_vars

----------------------------------------------------------------------------
(* C29: saving the room editor applies only the edit of the user.  A room    *)
(* that the edit does not name keeps its capacity entry and its records in   *)
(* all three partitions, also when the building filter hides it from the     *)
(* grid and when it has a capacity entry and no current record.              *)
Touched(edit) == IF edit.kind = "none" THEN {} ELSE {edit.room, edit.to}

RecordsOf(df, room) ==
    SelectSeq(df, LAMBDA r : <<r.Building, r.Office>> = room)

C29_SaveAppliesOnlyEdits ==
    [][last'.op = "save_room_changes" =>
          \A room \in KnownRooms \ Touched(last'.args[2]) :
              /\ (KeyOf(room) \in DOMAIN room_capacities')
                    = (KeyOf(room) \in DOMAIN room_capacities)
              /\ get_capacity(room[1], room[2])' = get_capacity(room[1], room[2])
              /\ \A P \in Partitions : RecordsOf(P[3], room) = RecordsOf(P[2], room)]_vars

----------------------------------------------------------------------------
(* C30: overwriting the Building or Office cell of an existing room with a   *)
(* new room's name and saving renames the room: its capacity entry and all   *)
(* its records, in every partition, are at the new (building, office)        *)
(* afterwards and no record is deleted.                                      *)
C30_EditorRenamesRoom ==
    [][(last'.op = "save_room_changes" /\ last'.args[2].kind = "rename") =>
          LET old == last'.args[2].room
              new == last'.args[2].to
          IN  /\ KeyOf(old) \notin DOMAIN room_capacities'
              /\ DictGet(room_capacities', KeyOf(new), DefaultCapacity)
                    = DictGet(room_capacities, KeyOf(old), DefaultCapacity)
              /\ \A P \in Partitions :
                    /\ NoneAt(P[3], old)
                    /\ SameBag(P[3], MovedDf(P[2], old, new))]_vars

====
